---------------------------- MODULE Spec2Model ----------------------------
(***************************************************************************)
(* Order processing of the fireworks storefront.                           *)
(*                                                                         *)
(* The relational store (Product, Order, OrderItem, user profile) is the   *)
(* only shared state.  Every request handler of inventory/views.py that    *)
(* changes stock is an action; checkout is split at the statements that    *)
(* touch the store inside its transaction.atomic() block, so that two      *)
(* requests can interleave there.  A transaction is a private write set    *)
(* that is applied to the store when the block is left normally and        *)
(* dropped when it is left by an exception; other requests read committed  *)
(* data only, and the code takes no lock of its own.                       *)
(***************************************************************************)
EXTENDS Integers, Sequences, FiniteSets, TLC

(***************************************************************************)
(* Bounds of the model.                                                    *)
(***************************************************************************)
NumProducts == 2
\* The longest run of digits in a phone number handed to send_text.
MaxDigits == 12
MaxLines == 2
MaxQty == 3
MaxRequests == 2
InitStock == 2
NumCatalog == 5

(***************************************************************************)
(* Program constants.                                                      *)
(***************************************************************************)
MIN_ORDER_AMOUNT == 3000
LOW_STOCK == 10
\* if len(cleaned) < 10
MIN_PHONE_LENGTH == 10
\* f"+91{phone_number}" if len(phone_number) == 10
LOCAL_NUMBER_LENGTH == 10
\* MIN_PACK_AMOUNT = 3000
MIN_PACK_AMOUNT == 3000
\* if len(selected_products) < 4
MIN_PACK_ITEMS == 4

ProductIds == 1..NumProducts
\* Ids a cart key can resolve to; NumProducts + 1 is no row of Product.
ProductKeys == 1..(NumProducts + 1)
Prices == {1500}
Quantities == (-1)..MaxQty
Workers == {1, 2}
Users == {"u1"}

\* What a WhatsApp send for an order comes to: a success result, a failure
\* result, or an exception inside the send.
WhatsAppOutcomes == {"ok", "failed", "exception"}
\* What send_mail comes to inside an on_commit callback: delivered, an SMTP
\* error (or timeout), or any other exception of the callback's body.
MailOutcomes == {"sent", "smtp_error", "unexpected"}

Lines == [pid : ProductKeys, price : Prices, quantity : Quantities]
Carts == UNION {[1..n -> Lines] : n \in 0..MaxLines}

\* customerData of the request body; "" and << >> are the falsy values.
CustomerData ==
  [fullName : {<<"Asha", "Rao">>},
   email : {"asha@example.in"},
   phone : {"", "9876543210"},
   deliveryAddress : {"12 Main St"}]

CheckoutRequests ==
  [user : Users, customerData : CustomerData, updateProfile : BOOLEAN,
   cartItems : Carts]

NoRequest == [user |-> "u1", customerData |-> [fullName |-> << >>, email |-> "",
              phone |-> "", deliveryAddress |-> ""], updateProfile |-> FALSE,
              cartItems |-> << >>]

VARIABLES
  stock,        \* Product.stock_quantity, committed
  active,       \* Product.is_active
  orders,       \* committed Order rows
  items,        \* committed OrderItem rows
  profile,      \* CustomUser first_name, last_name, phone_number, address
  nextOrderId,  \* the Order primary-key sequence
  pc,           \* each worker's position in checkout
  req,          \* the request a worker is handling
  txn,          \* the worker's open transaction: its write set and on_commit list
  resp,         \* the worker's last response
  pre,          \* the store as it was when the worker received its request
  first,        \* for a resubmitted request: the first answer and the store before it
  sent,         \* WhatsApp send_text calls made
  outbox,       \* on_commit callbacks that ran (e-mails)
  nreq,         \* requests received so far
  made,         \* id of the Order the worker's request created, 0 when none
  dirty,        \* another request wrote the store since the worker received its own
  raced,        \* a checkout committed while another had passed its stock check
  wa_settings,  \* the WHATSAPP_* values of django.conf.settings
  wa_last,      \* the last call into whatsapp_notifications and what it returned
  http,         \* the number of requests.post calls made by WhatsAppClient
  web,          \* the last request to a role-gated handler and its response
  audit,        \* every change made to a field of an existing Order, and by whom
  deleted,      \* ids of the Product rows that were deleted
  users,        \* the CustomUser rows: role and is_approved of each stored user
  catalog,      \* the Product rows get_quick_order_lists reads
  quick         \* what get_quick_order_lists returned

waVars == <<wa_settings, wa_last, http>>
webVars == <<web, audit, deleted>>
libVars == <<users, catalog, quick>>

vars == <<stock, active, orders, items, profile, nextOrderId, pc,
          req, txn, resp, pre, first, sent, outbox, nreq, made, dirty, raced,
          waVars, webVars, libVars>>

store == [stock |-> stock, orders |-> orders, items |-> items, profile |-> profile]

NoTxn == [order |-> << >>, items |-> {}, stockw |-> << >>, on_commit |-> {}]
NoResp == [success |-> FALSE, error_type |-> "none", error_code |-> 0, shortfall |-> 0]

\* utils.handle_api_error
handle_api_error(error_type, status_code, shortfall) ==
  [success |-> FALSE, error_type |-> error_type, error_code |-> status_code,
   shortfall |-> shortfall]

Success == [success |-> TRUE, error_type |-> "none", error_code |-> 200, shortfall |-> 0]

RECURSIVE SumLines(_, _)
SumLines(cart, n) ==
  IF n = 0 THEN 0
  ELSE SumLines(cart, n - 1) + cart[n].price * cart[n].quantity

\* total_amount = sum(float(item['price']) * item['quantity'] ...)
total_amount(cart) == SumLines(cart, Len(cart))

\* all(field in customer_data and customer_data[field] for field in required_fields)
required_fields_present(c) ==
  /\ c.fullName # << >>
  /\ c.email # ""
  /\ c.phone # ""
  /\ c.deliveryAddress # ""

\* The profile fields checkout writes from customerData.
updated_profile(c) ==
  [first_name |-> <<c.fullName[1]>>,
   last_name |-> Tail(c.fullName),
   phone_number |-> c.phone,
   address |-> c.deliveryAddress]

InitProfile ==
  [first_name |-> <<"Old">>, last_name |-> << >>, phone_number |-> "", address |-> ""]

\* A read of Product.stock_quantity by worker r: its own writes, else committed.
ReadStock(r, p) ==
  IF p \in DOMAIN txn[r].stockw THEN txn[r].stockw[p] ELSE stock[p]

InitStore ==
  [stock |-> [p \in ProductIds |-> InitStock], orders |-> {}, items |-> {},
   profile |-> [u \in Users |-> InitProfile]]

NoFirst == [kind |-> "none", store |-> InitStore]

(***************************************************************************)
(* Text handed to the WhatsApp client.  A string is a sequence of           *)
(* characters.                                                              *)
(***************************************************************************)
Digits == {"0", "1", "2", "3", "4", "5", "6", "7", "8", "9"}
\* .replace(" ", "").replace("-", "").replace("(", "").replace(")", "")
Formatting == {" ", "-", "(", ")"}
Whitespace == {" ", "\n"}

Rep(ch, n) == [i \in 1..n |-> ch]

\* Phone numbers a caller hands over: an optional formatting character in
\* front, an optional "+", a run of digits, and an optional tail.
PhoneNumbers ==
  {lead \o plus \o Rep("9", n) \o tail :
     lead \in {<< >>, <<" ">>, <<"(">>},
     plus \in {<< >>, <<"+">>},
     n \in 0..MaxDigits,
     tail \in {<< >>, <<"A">>, <<"-", "9">>}}

MessageBodies == {<< >>, <<" ">>, <<" ", "\n">>, <<"h", "i">>, <<" ", "h", " ">>}

\* WHATSAPP_DRY_RUN is unset, True or False; the two credentials are both
\* set or not; WHATSAPP_ADMIN_NUMBER is unset (empty) or a number.
WhatsAppSettings ==
  [dry_run : {"unset", "True", "False"},
   credentials : BOOLEAN,
   admin_number : {<< >>, Rep("9", 10), <<"+">> \o Rep("9", 12)}]

\* What the Graph API call comes to in production mode.
ApiOutcomes == {"ok", "status_error", "timeout"}

NoPayload == [to |-> << >>, body |-> << >>]
NoCall == [op |-> "none", done |-> TRUE]
NoWeb == [handler |-> "none"]

\* The names under which a CustomUser row can be stored.
UserNames == {"n1", "n2", "n3"}
NoUser == [stored |-> FALSE, role |-> "", is_approved |-> FALSE, origin |-> "none"]
NoUsers == [n \in UserNames |-> NoUser]
NoCatalog == << >>
NoQuick == << >>

TypeOK ==
  /\ stock \in [ProductIds -> Int]
  /\ active \in [ProductIds -> BOOLEAN]
  /\ pc \in [Workers -> {"idle", "check", "create", "items", "stock", "commit", "done"}]
  /\ nreq \in 0..MaxRequests

Init ==
  /\ stock = [p \in ProductIds |-> InitStock]
  /\ active \in [ProductIds -> BOOLEAN]
  /\ orders = {}
  /\ items = {}
  /\ profile = [u \in Users |-> InitProfile]
  /\ nextOrderId = 1
  /\ pc = [r \in Workers |-> "idle"]
  /\ req = [r \in Workers |-> NoRequest]
  /\ txn = [r \in Workers |-> NoTxn]
  /\ resp = [r \in Workers |-> NoResp]
  /\ pre = [r \in Workers |-> InitStore]
  /\ first = [r \in Workers |-> NoFirst]
  /\ sent = {}
  /\ outbox = {}
  /\ nreq = 0
  /\ made = [r \in Workers |-> 0]
  /\ dirty = [r \in Workers |-> FALSE]
  /\ raced = FALSE
  /\ wa_settings = [dry_run |-> "unset", credentials |-> FALSE, admin_number |-> << >>]
  /\ wa_last = NoCall
  /\ http = 0
  /\ web = NoWeb
  /\ audit = {}
  /\ deleted = {}
  /\ users = NoUsers
  /\ catalog = NoCatalog
  /\ quick = NoQuick

(***************************************************************************)
(* checkout, views.py:81-241.                                              *)
(***************************************************************************)

\* with transaction.atomic(): the block is open between its first statement
\* and the commit or rollback that leaves it.
InAtomic(r) == pc[r] \in {"check", "create", "items", "stock", "commit"}

Quiet == \A r \in Workers : pc[r] \in {"idle", "done"}

\* Product.objects.get(id=product_id): the row, or DoesNotExist.
product_exists(pid) == pid \in ProductIds /\ pid \notin deleted

\* if total_amount < MIN_ORDER_AMOUNT
below_minimum(total) == total < MIN_ORDER_AMOUNT

\* A faulty variant of shortfall_of: the difference taken the other way round.
shortfall_reversed(total) == total - MIN_ORDER_AMOUNT

\* 'shortfall': MIN_ORDER_AMOUNT - total_amount
shortfall_of(total) == MIN_ORDER_AMOUNT - total

\* A faulty variant of pre_validation: the minimum-order check moved to the front.
pre_validation_minimum_first(request) ==
  IF below_minimum(total_amount(request.cartItems))
    THEN handle_api_error("minimum_order", 400,
                          shortfall_of(total_amount(request.cartItems)))
  ELSE IF ~required_fields_present(request.customerData)
    THEN handle_api_error("validation", 400, 0)
  ELSE IF Len(request.cartItems) = 0
    THEN handle_api_error("validation", 400, 0)
  ELSE NoResp

\* The statements of checkout before the atomic block: required fields, the
\* profile update, the empty-cart check and the minimum-order check, in the
\* order of the source.  Yields the response, or NoResp to go on.
pre_validation(request) ==
  IF ~required_fields_present(request.customerData)
    THEN handle_api_error("validation", 400, 0)
  ELSE IF Len(request.cartItems) = 0
    THEN handle_api_error("validation", 400, 0)
  ELSE IF below_minimum(total_amount(request.cartItems))
    THEN handle_api_error("minimum_order", 400,
                          shortfall_of(total_amount(request.cartItems)))
  ELSE NoResp

\* if request.user.is_authenticated and customer_data.get('updateProfile'):
\* runs after the required-fields check and before every other check.
profile_after(request) ==
  IF required_fields_present(request.customerData) /\ request.updateProfile
    THEN [profile EXCEPT ![request.user] = updated_profile(request.customerData)]
    ELSE profile

Handle(r, request) ==
  /\ UNCHANGED <<waVars, webVars, libVars>>
  /\ req' = [req EXCEPT ![r] = request]
  /\ pre' = [pre EXCEPT ![r] = store]
  /\ profile' = profile_after(request)
  /\ txn' = [txn EXCEPT ![r] = NoTxn]
  /\ LET answer == pre_validation(request) IN
       IF answer = NoResp
         THEN /\ pc' = [pc EXCEPT ![r] = "check"]
              /\ resp' = [resp EXCEPT ![r] = NoResp]
         ELSE /\ pc' = [pc EXCEPT ![r] = "done"]
              /\ resp' = [resp EXCEPT ![r] = answer]
  /\ nreq' = nreq + 1
  /\ made' = [made EXCEPT ![r] = 0]
  /\ dirty' = [w \in Workers |->
                IF w = r THEN FALSE ELSE dirty[w] \/ (pc[w] # "idle" /\ profile' # profile)]
  /\ UNCHANGED <<stock, active, orders, items, nextOrderId, sent, outbox, raced>>

\* A POST to checkout/ arrives at worker r.
CheckoutReceive(r, request) ==
  /\ nreq < MaxRequests
  /\ pc[r] = "idle"
  /\ Handle(r, request)
  /\ first' = [first EXCEPT ![r] = NoFirst]

\* The client submits the request that was just rejected once more.
CheckoutResubmit(r) ==
  /\ nreq < MaxRequests
  /\ pc[r] = "done"
  /\ ~resp[r].success
  /\ first[r].kind = "none"
  /\ Handle(r, req[r])
  /\ first' = [first EXCEPT ![r] = [kind |-> resp[r].error_type, store |-> pre[r]]]

\* A faulty variant of check_line: only a product that is out of stock is refused.
check_line_out_of_stock(r, line) ==
  IF ~product_exists(line.pid) THEN "not_found"
  ELSE IF ReadStock(r, line.pid) < 1 THEN "stock"
  ELSE "ok"

\* A faulty variant of check_line: the product is looked up and its stock is not compared.
check_line_existence_only(r, line) ==
  IF ~product_exists(line.pid) THEN "not_found" ELSE "ok"

\* One pass of "for product_id, item in cart_items.items()" of the stock check.
check_line(r, line) ==
  IF ~product_exists(line.pid) THEN "not_found"
  ELSE IF ReadStock(r, line.pid) < line.quantity THEN "stock"
  ELSE "ok"

\* The loop returns at the first line that fails.
stock_check(r, cart) ==
  LET bad == {i \in 1..Len(cart) : check_line(r, cart[i]) # "ok"} IN
    IF bad = {} THEN "ok"
    ELSE check_line(r, cart[CHOOSE i \in bad : \A j \in bad : i <= j])

\* A faulty variant of rolled_back: the writes made so far stay (no atomic block).
leaked_writes(t) == t

\* What leaves the atomic block when it is left by return or by an exception
\* before commit: nothing of the write set.
rolled_back(t) == NoTxn

\* The write set t applied to the committed rows.
Committed(t) ==
  [stock |-> [p \in ProductIds |->
                IF p \in DOMAIN t.stockw THEN t.stockw[p] ELSE stock[p]],
   orders |-> orders \cup {t.order[i] : i \in DOMAIN t.order},
   items |-> items \cup t.items]

LeaveAtomic(r, t, answer, callbacks) ==
  /\ stock' = Committed(t).stock
  /\ orders' = Committed(t).orders
  /\ items' = Committed(t).items
  /\ outbox' = outbox \cup callbacks
  /\ txn' = [txn EXCEPT ![r] = NoTxn]
  /\ pc' = [pc EXCEPT ![r] = "done"]
  /\ resp' = [resp EXCEPT ![r] = answer]
  /\ dirty' = [w \in Workers |->
                IF w = r THEN dirty[w]
                ELSE dirty[w] \/ (pc[w] # "idle" /\ t # NoTxn)]
  /\ raced' = (raced \/ (t # NoTxn /\ \E w \in Workers \ {r} :
                                          pc[w] \in {"create", "items", "stock", "commit"}))

\* Check stock availability first (views.py:152-166).
CheckStock(r) ==
  /\ UNCHANGED <<waVars, webVars, libVars>>
  /\ pc[r] = "check"
  /\ LET verdict == stock_check(r, req[r].cartItems) IN
       IF verdict = "ok"
         THEN /\ pc' = [pc EXCEPT ![r] = "create"]
              /\ UNCHANGED <<stock, orders, items, outbox, txn, resp, dirty, raced>>
         ELSE LeaveAtomic(r, rolled_back(txn[r]),
                          handle_api_error(verdict,
                                           IF verdict = "stock" THEN 400 ELSE 404, 0),
                          {})
  /\ UNCHANGED <<active, profile, nextOrderId, req, pre, first, sent, nreq, made>>

\* format_order_items(order): the OrderItem rows of the order that the
\* sending request can see.
format_order_items(r, id) ==
  {[product |-> i.product, quantity |-> i.quantity] :
     i \in {j \in items \cup txn[r].items : j.order = id}}

\* getattr(settings, 'WHATSAPP_ADMIN_NUMBER', None): settings.py sets none.
WHATSAPP_ADMIN_NUMBER == ""

\* send_order_notifications: one send_text per recipient; the admin one only
\* when WHATSAPP_ADMIN_NUMBER is set.
send_order_notifications(r, id, outcome) ==
  {[order |-> id, recipient |-> who, in_atomic |-> InAtomic(r),
    item_list |-> format_order_items(r, id), outcome |-> outcome] :
     who \in {"customer"} \cup (IF WHATSAPP_ADMIN_NUMBER # "" THEN {"admin"} ELSE {})}

\* A faulty variant of signal_raises: the receiver lets the exception through.
signal_raises_through(outcome) == outcome = "exception"

\* send_order_notification_signal wraps the sends in try/except Exception
\* and does not re-raise: nothing leaves the receiver.
signal_raises(outcome) == FALSE

new_order(r, id) ==
  [id |-> id, user |-> req[r].user,
   phone |-> req[r].customerData.phone,
   address |-> req[r].customerData.deliveryAddress,
   total_amount |-> total_amount(req[r].cartItems),
   status |-> "pending"]

\* Order.objects.create(...) and the post_save receiver it triggers
\* (views.py:169-177, signals.py:24-62).  An exception out of the receiver
\* would leave create() and the atomic block.
CreateOrder(r) ==
  /\ UNCHANGED <<waVars, webVars, libVars>>
  /\ pc[r] = "create"
  /\ \E outcome \in WhatsAppOutcomes :
       /\ sent' = sent \cup send_order_notifications(r, nextOrderId, outcome)
       /\ IF signal_raises(outcome)
            THEN LeaveAtomic(r, rolled_back(txn[r]),
                             handle_api_error("server", 500, 0), {})
            ELSE /\ txn' = [txn EXCEPT ![r].order = <<new_order(r, nextOrderId)>>]
                 /\ pc' = [pc EXCEPT ![r] = "items"]
                 /\ UNCHANGED <<stock, orders, items, outbox, resp, dirty, raced>>
  /\ nextOrderId' = nextOrderId + 1
  /\ made' = [made EXCEPT ![r] = nextOrderId]
  /\ UNCHANGED <<active, profile, req, pre, first, nreq>>

\* unique_together = ['order', 'product']: the second OrderItem of one order for
\* one product raises IntegrityError.  Two cart keys name one product when they
\* convert to the same id.
violates_unique_together(cart) ==
  \E i, j \in 1..Len(cart) : i < j /\ cart[i].pid = cart[j].pid

order_items_of(id, cart) ==
  {[order |-> id, product |-> cart[i].pid, quantity |-> cart[i].quantity,
    price |-> cart[i].price] : i \in 1..Len(cart)}

\* Create order items (views.py:180-187); an exception leaves the atomic block
\* and is answered by the handler of views.py:227-235.
CreateItems(r) ==
  /\ UNCHANGED <<waVars, webVars, libVars>>
  /\ pc[r] = "items"
  /\ IF violates_unique_together(req[r].cartItems)
       THEN LeaveAtomic(r, rolled_back(txn[r]), handle_api_error("server", 500, 0), {})
       ELSE /\ txn' = [txn EXCEPT ![r].items =
                         order_items_of(txn[r].order[1].id, req[r].cartItems)]
            /\ pc' = [pc EXCEPT ![r] = "stock"]
            /\ UNCHANGED <<stock, orders, items, outbox, resp, dirty, raced>>
  /\ UNCHANGED <<active, profile, nextOrderId, req, pre, first, sent, nreq, made>>

\* A faulty variant of decrements: the guard on the sign of the quantity is missing.
decrements_always(line) == TRUE

\* if item_quantity > 0: guards the decrement, the save and the alert.
decrements(line) == line.quantity > 0

RECURSIVE stock_after(_, _, _, _)
\* Stock of product p as worker r sees it after the first n passes of the
\* update loop: each pass reads the row again, lowers it and saves it.
stock_after(r, cart, n, p) ==
  IF n = 0 THEN ReadStock(r, p)
  ELSE IF cart[n].pid = p /\ decrements(cart[n])
    THEN stock_after(r, cart, n - 1, p) - cart[n].quantity
  ELSE stock_after(r, cart, n - 1, p)

saved_products(cart) == {cart[i].pid : i \in {j \in 1..Len(cart) : decrements(cart[j])}}

\* A faulty variant of is_low_stock: a stock of exactly 10 counts as low.
is_low_stock_inclusive(s) == s <= LOW_STOCK

\* Product.is_low_stock
is_low_stock(s) == s < LOW_STOCK

\* One transaction.on_commit(send_stock_alert) for each pass of the update
\* loop that leaves the product it saved low on stock; line is the pass.
stock_alerts(r, cart) ==
  {[kind |-> "stock_alert", ref |-> cart[i].pid, order |-> txn[r].order[1].id,
    line |-> i] :
     i \in {j \in 1..Len(cart) :
              /\ decrements(cart[j])
              /\ is_low_stock(stock_after(r, cart, j, cart[j].pid))}}

\* The callbacks with what their send_mail came to.
ran(callbacks, oc) ==
  {[kind |-> c.kind, ref |-> c.ref, order |-> c.order, line |-> c.line,
    outcome |-> oc[c]] :
     c \in callbacks}

\* A faulty variant of on_commit_in_atomic: the callback runs when it is registered.
on_commit_at_once(callbacks) == ran(callbacks, [c \in callbacks |-> "sent"])

\* transaction.on_commit inside an atomic block: the callback is kept for the
\* commit and nothing runs now.
on_commit_in_atomic(callbacks) == {}

order_confirmation(r) ==
  [kind |-> "order_confirmation", ref |-> txn[r].order[1].id,
   order |-> txn[r].order[1].id, line |-> 0]

\* Update stock quantities and queue the on_commit callbacks (views.py:189-213).
UpdateStock(r) ==
  /\ UNCHANGED <<waVars, webVars, libVars>>
  /\ pc[r] = "stock"
  /\ LET cart == req[r].cartItems
         callbacks == stock_alerts(r, cart) \cup {order_confirmation(r)}
     IN /\ txn' = [txn EXCEPT
                     ![r].stockw = [p \in saved_products(cart) |->
                                      stock_after(r, cart, Len(cart), p)],
                     ![r].on_commit = callbacks]
        /\ outbox' = outbox \cup on_commit_in_atomic(callbacks)
  /\ pc' = [pc EXCEPT ![r] = "commit"]
  /\ UNCHANGED <<stock, active, orders, items, profile, nextOrderId,
                 req, resp, pre, first, sent, nreq, made, dirty, raced>>

\* A faulty variant of callback_raises: a failed send is raised again.
callback_raises_on_error(outcome) == outcome # "sent"

\* send_order_confirmation and send_stock_alert catch every exception of their
\* bodies and return: nothing leaves the callback.
callback_raises(outcome) == FALSE

\* The atomic block is left normally: commit, run the on_commit callbacks,
\* answer success (views.py:213-219).  An exception out of a callback is caught
\* by the handler of views.py:227-235, after the commit.
Commit(r) ==
  /\ UNCHANGED <<waVars, webVars, libVars>>
  /\ pc[r] = "commit"
  /\ \E oc \in [txn[r].on_commit -> MailOutcomes] :
       LeaveAtomic(r, txn[r],
                   IF \E c \in txn[r].on_commit : callback_raises(oc[c])
                     THEN handle_api_error("server", 500, 0)
                     ELSE Success,
                   ran(txn[r].on_commit, oc))
  /\ UNCHANGED <<active, profile, nextOrderId, req, pre, first, sent, nreq, made>>

(***************************************************************************)
(* update_stock, views.py:48-75, and quick_add_stock, views.py:319-330.    *)
(***************************************************************************)

\* if product.stock_quantity >= quantity: product.stock_quantity -= quantity
update_stock_result(s, quantity) ==
  IF s >= quantity THEN s - quantity ELSE s

update_stock(pid, quantity) ==
  /\ UNCHANGED <<waVars, webVars, libVars>>
  /\ nreq < MaxRequests
  /\ Quiet
  /\ stock' = IF product_exists(pid)
                THEN [stock EXCEPT ![pid] = update_stock_result(@, quantity)]
                ELSE stock
  /\ nreq' = nreq + 1
  /\ dirty' = [w \in Workers |-> dirty[w] \/ (pc[w] # "idle" /\ stock' # stock)]
  /\ UNCHANGED <<active, orders, items, profile, nextOrderId, pc, req,
                 txn, resp, pre, first, sent, outbox, made, raced>>

\* product.stock_quantity += int(data['quantity'])
quick_add_result(s, quantity) == s + quantity

quick_add_stock(pid, quantity) ==
  /\ UNCHANGED <<waVars, webVars, libVars>>
  /\ nreq < MaxRequests
  /\ Quiet
  /\ stock' = IF product_exists(pid)
                THEN [stock EXCEPT ![pid] = quick_add_result(@, quantity)]
                ELSE stock
  /\ nreq' = nreq + 1
  /\ dirty' = [w \in Workers |-> dirty[w] \/ (pc[w] # "idle" /\ stock' # stock)]
  /\ UNCHANGED <<active, orders, items, profile, nextOrderId, pc, req,
                 txn, resp, pre, first, sent, outbox, made, raced>>


(***************************************************************************)
(* WhatsAppClient, whatsapp_client.py.                                     *)
(***************************************************************************)

\* A faulty variant of dry_run: the default is production mode.
dry_run_default_off(settings) == settings.dry_run = "True"

\* self.dry_run = getattr(settings, 'WHATSAPP_DRY_RUN', True)
dry_run(settings) == settings.dry_run # "False"

mode_of(settings) == IF dry_run(settings) THEN "dry_run" ELSE "production"

\* __init__ raises ValueError when not dry_run and a credential is missing.
client_raises(settings) == ~dry_run(settings) /\ ~settings.credentials

strip_formatting(s) == SelectSeq(s, LAMBDA c : c \notin Formatting)

\* str.startswith("+")
startswith_plus(s) == Len(s) >= 1 /\ s[1] = "+"

\* str.isdigit(): not empty and every character a digit.
isdigit(s) == Len(s) > 0 /\ \A i \in 1..Len(s) : s[i] \in Digits

\* if len(cleaned) < 10: the length counts the "+".
long_enough(cleaned) == ~(Len(cleaned) < MIN_PHONE_LENGTH)

\* _validate_phone_number: "valid", or the error.
validate_phone_number(phone_number) ==
  LET cleaned == strip_formatting(phone_number) IN
    IF ~startswith_plus(cleaned) THEN "must start with '+'"
    ELSE IF ~isdigit(Tail(cleaned)) THEN "must contain only digits after '+'"
    ELSE IF ~long_enough(cleaned) THEN "must be at least 10 digits"
    ELSE "valid"

\* str.strip(): without its leading and trailing whitespace.
strip(s) ==
  LET keep == {i \in 1..Len(s) : s[i] \notin Whitespace} IN
    IF keep = {} THEN << >>
    ELSE SubSeq(s, CHOOSE i \in keep : \A j \in keep : i <= j,
                   CHOOSE i \in keep : \A j \in keep : i >= j)

\* if not message_body or len(message_body.strip()) == 0
body_rejected(message_body) == Len(message_body) = 0 \/ Len(strip(message_body)) = 0

\* _build_payload
build_payload(to, message_body) == [to |-> to, body |-> message_body]

Posts(result) == IF result.posted THEN 1 ELSE 0

Rejected(settings, error) ==
  [success |-> FALSE, mode |-> mode_of(settings), error |-> error,
   to |-> << >>, payload |-> NoPayload, posted |-> FALSE]

\* A faulty variant of send_text: the body is checked before the phone number.
send_text_body_first(settings, to, message_body, api) ==
  IF body_rejected(message_body)
    THEN Rejected(settings, "Message body cannot be empty")
  ELSE IF validate_phone_number(to) # "valid"
    THEN Rejected(settings, validate_phone_number(to))
  ELSE [success |-> dry_run(settings) \/ api = "ok", mode |-> mode_of(settings),
        error |-> IF dry_run(settings) \/ api = "ok" THEN "" ELSE api,
        to |-> to,
        payload |-> IF dry_run(settings) THEN build_payload(to, message_body)
                    ELSE NoPayload,
        posted |-> ~dry_run(settings)]

\* send_text: the returned dictionary; posted tells whether requests.post was
\* called.  api is what the call comes to in production mode.
send_text(settings, to, message_body, api) ==
  IF validate_phone_number(to) # "valid"
    THEN Rejected(settings, validate_phone_number(to))
  ELSE IF body_rejected(message_body)
    THEN Rejected(settings, "Message body cannot be empty")
  ELSE IF dry_run(settings)
    THEN [success |-> TRUE, mode |-> "dry_run", error |-> "", to |-> to,
          payload |-> build_payload(to, message_body), posted |-> FALSE]
  ELSE [success |-> api = "ok", mode |-> "production",
        error |-> IF api = "ok" THEN "" ELSE api,
        to |-> to, payload |-> NoPayload, posted |-> TRUE]

\* The pending call client.send_text(to, body) runs on a constructed client.
SendText ==
  /\ wa_last.op = "send_text"
  /\ ~wa_last.done
  /\ ~client_raises(wa_settings)
  /\ LET result == send_text(wa_settings, wa_last.to, wa_last.body, wa_last.api) IN
       /\ wa_last' = [op |-> "send_text", done |-> TRUE, to |-> wa_last.to,
                      body |-> wa_last.body, api |-> wa_last.api, result |-> result]
       /\ http' = http + Posts(result)
  /\ UNCHANGED <<stock, active, orders, items, profile, nextOrderId, pc, req, txn,
                 resp, pre, first, sent, outbox, nreq, made, dirty, raced,
                 wa_settings, webVars, libVars>>

(***************************************************************************)
(* whatsapp_notifications/service.py on one Order.                         *)
(***************************************************************************)

\* The Order instances handed to send_order_notifications: id 0 is an
\* instance that was never saved; phone is the value given to create(), a
\* string or (from a JSON number) not a string.
NotifiedOrders ==
  [id : {0, 1},
   phone : {Rep("9", 10), <<"+">> \o Rep("9", 12), Rep("9", 5)},
   phone_is_str : BOOLEAN]

\* if not phone_number.startswith("+"):
\*     phone_number = f"+91{phone_number}" if len(phone_number) == 10 else f"+{phone_number}"
with_country_code(phone_number) ==
  IF startswith_plus(phone_number) THEN phone_number
  ELSE IF Len(phone_number) = LOCAL_NUMBER_LENGTH
    THEN <<"+", "9", "1">> \o phone_number
  ELSE <<"+">> \o phone_number

customer_message(order) == <<"Y", "o", "u", "r", " ", "o", "r", "d", "e", "r">>
admin_message(order) == <<"N", "e", "w", " ", "O", "r", "d", "e", "r">>

\* An entry of the results dictionary.  {} has no keys.
EmptyEntry ==
  [has_keys |-> FALSE, success |-> FALSE, recipient_type |-> "", error |-> ""]
Entry(result, who) ==
  [has_keys |-> TRUE, success |-> result.success, recipient_type |-> who,
   error |-> result.error]
ExceptionEntry(who) ==
  [has_keys |-> TRUE, success |-> FALSE, recipient_type |-> who, error |-> "Exception"]

\* send_order_confirmation_to_customer: raises when the client cannot be
\* constructed or order.phone has no startswith.
send_order_confirmation_to_customer(settings, order, api) ==
  IF client_raises(settings) \/ ~order.phone_is_str
    THEN [raised |-> TRUE, entry |-> EmptyEntry, posts |-> 0]
  ELSE LET to == with_country_code(order.phone)
           result == send_text(settings, to, customer_message(order), api)
       IN [raised |-> FALSE, entry |-> Entry(result, "customer"),
           posts |-> Posts(result)]

\* send_order_notification_to_admin: the client is constructed first, then
\* the send is skipped when WHATSAPP_ADMIN_NUMBER is not set.
send_order_notification_to_admin(settings, order, api) ==
  IF client_raises(settings)
    THEN [raised |-> TRUE, entry |-> EmptyEntry, posts |-> 0]
  ELSE IF settings.admin_number = << >>
    THEN [raised |-> FALSE,
          entry |-> [has_keys |-> TRUE, success |-> FALSE, recipient_type |-> "admin",
                     error |-> "Admin phone number not configured"],
          posts |-> 0]
  ELSE LET to == with_country_code(settings.admin_number)
           result == send_text(settings, to, admin_message(order), api)
       IN [raised |-> FALSE, entry |-> Entry(result, "admin"),
           posts |-> Posts(result)]

\* A faulty variant of order_notification_results: one try block around both sends.
order_notification_results_one_try(settings, order, api_c, api_a) ==
  IF order.id = 0
    THEN [raised |-> FALSE, has_entries |-> FALSE, admin_called |-> FALSE,
          customer |-> EmptyEntry, admin |-> EmptyEntry, posts |-> 0]
  ELSE LET c == send_order_confirmation_to_customer(settings, order, api_c)
           a == send_order_notification_to_admin(settings, order, api_a)
       IN IF c.raised
            THEN [raised |-> FALSE, has_entries |-> TRUE, admin_called |-> FALSE,
                  customer |-> ExceptionEntry("customer"), admin |-> EmptyEntry,
                  posts |-> 0]
            ELSE [raised |-> FALSE, has_entries |-> TRUE, admin_called |-> TRUE,
                  customer |-> c.entry,
                  admin |-> IF a.raised THEN ExceptionEntry("admin") ELSE a.entry,
                  posts |-> c.posts + a.posts]

\* The results dictionary of send_order_notifications (service.py:124-193):
\* each send in its own try/except Exception.
order_notification_results(settings, order, api_c, api_a) ==
  IF order.id = 0
    THEN [raised |-> FALSE, has_entries |-> FALSE, admin_called |-> FALSE,
          customer |-> EmptyEntry, admin |-> EmptyEntry, posts |-> 0]
  ELSE LET c == send_order_confirmation_to_customer(settings, order, api_c)
           a == send_order_notification_to_admin(settings, order, api_a)
       IN [raised |-> FALSE, has_entries |-> TRUE, admin_called |-> TRUE,
           customer |-> IF c.raised THEN ExceptionEntry("customer") ELSE c.entry,
           admin |-> IF a.raised THEN ExceptionEntry("admin") ELSE a.entry,
           posts |-> c.posts + a.posts]

\* The pending call send_order_notifications(order) runs.
SendOrderNotifications ==
  /\ wa_last.op = "send_order_notifications"
  /\ ~wa_last.done
  /\ LET results == order_notification_results(wa_settings, wa_last.order,
                                               wa_last.api_c, wa_last.api_a) IN
       /\ wa_last' = [op |-> "send_order_notifications", done |-> TRUE,
                      order |-> wa_last.order, api_c |-> wa_last.api_c,
                      api_a |-> wa_last.api_a, results |-> results]
       /\ http' = http + results.posts
  /\ UNCHANGED <<stock, active, orders, items, profile, nextOrderId, pc, req, txn,
                 resp, pre, first, sent, outbox, nreq, made, dirty, raced,
                 wa_settings, webVars, libVars>>

(***************************************************************************)
(* The role gate: accounts/middleware.py, accounts/decorators.py and the   *)
(* decorators on the handlers of inventory/views.py.                        *)
(***************************************************************************)

\* "anon" is a request without a session; the others are logged in.
Accounts == {"anon", "u1", "u2", "s1", "a1"}

\* CustomUser.role
role(account) ==
  CASE account = "a1" -> "admin"
    [] account = "s1" -> "staff"
    [] OTHER -> "customer"

is_authenticated(account) == account # "anon"

\* CustomUser.is_approved: False by default, as for u2, who signed up with an
\* e-mail address; True for an admin and for a user who signed up with OAuth.
is_approved(account) == account \in {"a1", "s1", "u1"}

Methods == {"GET", "POST", "DELETE"}

\* The decorators of each handler, the outermost first.
decorators(handler) ==
  CASE handler = "admin_dashboard" ->
         <<"admin_required", "login_required", "admin_required">>
    [] handler \in {"dashboard_data", "update_order_status", "order_details",
                    "filter_orders", "quick_add_stock"} ->
         <<"admin_required">>
    [] handler \in {"staff_inventory", "get_product"} ->
         <<"staff_required", "login_required", "staff_required">>
    [] handler = "delete_product" ->
         <<"require_DELETE", "staff_required">>
    [] handler \in {"update_order_address", "customer_orders"} ->
         <<"login_required", "approved_user_required">>
    [] handler = "generate_invoice" ->
         <<"login_required", "approved_user_required", "login_required">>

Handlers ==
  {"admin_dashboard", "dashboard_data", "update_order_status", "order_details",
   "filter_orders", "quick_add_stock", "staff_inventory", "get_product",
   "delete_product", "update_order_address", "customer_orders", "generate_invoice"}

\* The text argument of a path: the <str:status> of filter-orders/<status>/,
\* empty for the other handlers, whose arguments are numbers.
FilterStatuses == {"all", "pending", "admin"}
PathArgs(handler) == IF handler = "filter_orders" THEN FilterStatuses ELSE {""}

\* 'admin' in request.path: admin/dashboard/, admin/dashboard-data/ and
\* filter-orders/<status>/ with a status that contains 'admin'.
path_has_admin(handler, arg) ==
  \/ handler \in {"admin_dashboard", "dashboard_data"}
  \/ handler = "filter_orders" /\ arg = "admin"

\* A faulty variant of allowed_roles: admin_required lets staff in as well.
allowed_roles_staff_as_admin(decorator) ==
  CASE decorator = "admin_required" -> {"admin", "staff"}
    [] decorator = "staff_required" -> {"admin", "staff"}
    [] decorator = "approved_user_required" -> {"admin", "staff", "customer"}

allowed_roles(decorator) ==
  CASE decorator = "admin_required" -> {"admin"}
    [] decorator = "staff_required" -> {"admin", "staff"}
    [] decorator = "approved_user_required" -> {"admin", "staff", "customer"}

\* A faulty variant of role_required: a logged-in user of any role is let in.
role_required_any_role(allowed, account) ==
  IF ~is_authenticated(account) THEN "redirect_login" ELSE "pass"

\* role_required(allowed_roles) on one request.
role_required(allowed, account) ==
  IF ~is_authenticated(account) THEN "redirect_login"
  ELSE IF role(account) \in allowed THEN "pass"
  ELSE "forbidden"

\* RoleMiddleware.__call__: no path of the inventory app starts with /admin/.
RoleMiddleware(handler, arg, account) ==
  IF is_authenticated(account) /\ path_has_admin(handler, arg) /\ role(account) # "admin"
    THEN "redirect_home"
    ELSE "pass"

RECURSIVE through_decorators(_, _, _, _)
\* The decorators from the i-th on: the first response one of them gives,
\* "run" when the request reaches the handler's body.
through_decorators(stack, i, account, method) ==
  IF i > Len(stack) THEN "run"
  ELSE LET verdict ==
             IF stack[i] = "login_required"
               THEN (IF is_authenticated(account) THEN "pass" ELSE "redirect_login")
             ELSE IF stack[i] = "require_DELETE"
               THEN (IF method = "DELETE" THEN "pass" ELSE "method_not_allowed")
             ELSE role_required(allowed_roles(stack[i]), account)
       IN IF verdict = "pass"
            THEN through_decorators(stack, i + 1, account, method)
            ELSE verdict

\* What a request gets before the body of the handler.
dispatch(handler, arg, account, method) ==
  IF RoleMiddleware(handler, arg, account) # "pass"
    THEN RoleMiddleware(handler, arg, account)
    ELSE through_decorators(decorators(handler), 1, account, method)

\* Order.STATUS_CHOICES
STATUS_CHOICES == {"pending", "processing", "shipped", "delivered", "cancelled"}

\* JSON bodies of update_order_status: with a 'status' of any text, or without.
StatusBodies ==
  [status : STATUS_CHOICES \cup {"refunded"}] \cup {[other |-> "x"]}

\* JSON bodies of update_order_address.
AddressBodies == [delivery_address : {"7 New Rd"}] \cup {[other |-> "x"]}

OrderIds == 1..2

\* The request and its response; content is the id of the order whose data
\* the response carries, 0 when it carries none.
Answer(handler, arg, account, method, order_id, response, content) ==
  /\ web' = [handler |-> handler, arg |-> arg, account |-> account, method |-> method,
             order |-> order_id, response |-> response, content |-> content]
  /\ nreq' = nreq + 1

\* The fields of existing Orders that differ between the rows before and after.
OrderFields == {"status", "address", "phone", "total_amount", "user"}

changes(old, new, account) ==
  {c \in [order : {o.id : o \in old}, field : OrderFields, account : {account}] :
     \E o \in old, n \in new :
       o.id = c.order /\ n.id = c.order /\ o[c.field] # n[c.field]}

WriteOrders(new, account) ==
  /\ orders' = new
  /\ audit' = audit \cup changes(orders, new, account)
  /\ dirty' = [w \in Workers |-> dirty[w] \/ (pc[w] # "idle" /\ new # orders)]

\* The handlers that read the store and render: admin_dashboard,
\* dashboard_data, order_details, filter_orders, get_product, customer_orders.
ReadOnlyHandlers ==
  {"admin_dashboard", "dashboard_data", "order_details", "filter_orders",
   "get_product", "customer_orders"}

ReadOnly(handler, arg, account, method) ==
  /\ nreq < MaxRequests
  /\ Quiet
  /\ Answer(handler, arg, account, method, 0, dispatch(handler, arg, account, method), 0)
  /\ UNCHANGED <<stock, active, orders, items, profile, nextOrderId, pc, req, txn,
                 resp, pre, first, sent, outbox, made, dirty, raced,
                 waVars, audit, deleted, libVars>>

\* order.status = data['status']; order.save(): save() runs no validator.
saved_status(o, body) == [o EXCEPT !.status = body.status]

\* update_order_status, views.py:278-289.
update_order_status(account, method, order_id, body) ==
  /\ nreq < MaxRequests
  /\ Quiet
  /\ LET response == dispatch("update_order_status", "", account, method)
         stored == response = "run" /\ method = "POST"
                   /\ (\E o \in orders : o.id = order_id)
                   /\ "status" \in DOMAIN body
     IN /\ Answer("update_order_status", "", account, method, order_id,
                  IF response # "run" THEN response
                  ELSE IF stored THEN "success" ELSE "failure", 0)
        /\ WriteOrders(IF stored
                         THEN {IF o.id = order_id THEN saved_status(o, body) ELSE o :
                                 o \in orders}
                         ELSE orders, account)
  /\ UNCHANGED <<stock, active, items, profile, nextOrderId, pc, req, txn,
                 resp, pre, first, sent, outbox, made, raced, waVars, deleted, libVars>>

\* A faulty variant of owned_order: the order is looked up by its id alone.
owned_order_any_user(o, order_id, account) == o.id = order_id

\* Order.objects.get(id=order_id, user=request.user)
owned_order(o, order_id, account) == o.id = order_id /\ o.user = account

\* update_order_address, views.py:428-440.
update_order_address(account, method, order_id, body) ==
  /\ nreq < MaxRequests
  /\ Quiet
  /\ LET response == dispatch("update_order_address", "", account, method)
         stored == response = "run" /\ method = "POST"
                   /\ (\E o \in orders : owned_order(o, order_id, account))
                   /\ "delivery_address" \in DOMAIN body
     IN /\ Answer("update_order_address", "", account, method, order_id,
                  IF response # "run" THEN response
                  ELSE IF stored THEN "success" ELSE "failure", 0)
        /\ WriteOrders(IF stored
                         THEN {IF owned_order(o, order_id, account)
                                 THEN [o EXCEPT !.address = body.delivery_address]
                                 ELSE o : o \in orders}
                         ELSE orders, account)
  /\ UNCHANGED <<stock, active, items, profile, nextOrderId, pc, req, txn,
                 resp, pre, first, sent, outbox, made, raced, waVars, deleted, libVars>>

\* generate_invoice, views.py:508-609.
generate_invoice(account, method, order_id) ==
  /\ nreq < MaxRequests
  /\ Quiet
  /\ LET response == dispatch("generate_invoice", "", account, method)
         found == \E o \in orders : owned_order(o, order_id, account)
     IN Answer("generate_invoice", "", account, method, order_id,
               IF response # "run" THEN response
               ELSE IF found THEN "pdf" ELSE "not_found",
               IF response = "run" /\ found THEN order_id ELSE 0)
  /\ UNCHANGED <<stock, active, orders, items, profile, nextOrderId, pc, req, txn,
                 resp, pre, first, sent, outbox, made, dirty, raced,
                 waVars, audit, deleted, libVars>>

\* quick_add_stock behind its gate, views.py:319-330.
QuickAddStock(account, method, pid, quantity) ==
  /\ nreq < MaxRequests
  /\ Quiet
  /\ LET response == dispatch("quick_add_stock", "", account, method)
         stored == response = "run" /\ method = "POST" /\ product_exists(pid)
     IN /\ Answer("quick_add_stock", "", account, method, 0,
                  IF response # "run" THEN response
                  ELSE IF stored THEN "success" ELSE "failure", 0)
        /\ stock' = IF stored
                      THEN [stock EXCEPT ![pid] = quick_add_result(@, quantity)]
                      ELSE stock
  /\ dirty' = [w \in Workers |-> dirty[w] \/ (pc[w] # "idle" /\ stock' # stock)]
  /\ UNCHANGED <<active, orders, items, profile, nextOrderId, pc, req, txn,
                 resp, pre, first, sent, outbox, made, raced, waVars, audit, deleted, libVars>>

\* staff_inventory, views.py:332-381: a POST with a product_id edits the
\* product, any other request lists the products.
staff_inventory(account, method, pid, stock_quantity) ==
  /\ nreq < MaxRequests
  /\ Quiet
  /\ LET response == dispatch("staff_inventory", "", account, method)
         stored == response = "run" /\ method = "POST" /\ product_exists(pid)
     IN /\ Answer("staff_inventory", "", account, method, 0,
                  IF response # "run" THEN response
                  ELSE IF method # "POST" THEN "run"
                  ELSE IF stored THEN "success" ELSE "failure", 0)
        /\ stock' = IF stored THEN [stock EXCEPT ![pid] = stock_quantity] ELSE stock
  /\ dirty' = [w \in Workers |-> dirty[w] \/ (pc[w] # "idle" /\ stock' # stock)]
  /\ UNCHANGED <<active, orders, items, profile, nextOrderId, pc, req, txn,
                 resp, pre, first, sent, outbox, made, raced, waVars, audit, deleted, libVars>>

\* delete_product, views.py:383-393: OrderItem.product is on_delete=CASCADE.
delete_product(account, method, pid) ==
  /\ nreq < MaxRequests
  /\ Quiet
  /\ LET response == dispatch("delete_product", "", account, method)
         stored == response = "run" /\ product_exists(pid)
     IN /\ Answer("delete_product", "", account, method, 0,
                  IF response # "run" THEN response
                  ELSE IF stored THEN "success" ELSE "failure", 0)
        /\ deleted' = IF stored THEN deleted \cup {pid} ELSE deleted
        /\ items' = IF stored THEN {i \in items : i.product # pid} ELSE items
  /\ dirty' = [w \in Workers |-> dirty[w] \/ (pc[w] # "idle" /\ items' # items)]
  /\ UNCHANGED <<stock, active, orders, profile, nextOrderId, pc, req, txn,
                 resp, pre, first, sent, outbox, made, raced, waVars, audit, libVars>>

(***************************************************************************)
(* Spec: requests are handled one after the other by one worker.           *)
(***************************************************************************)
Next ==
  \/ Quiet /\ pc[1] = "idle" /\ \E request \in CheckoutRequests : CheckoutReceive(1, request)
  \/ CheckoutResubmit(1)
  \/ CheckStock(1)
  \/ CreateOrder(1)
  \/ CreateItems(1)
  \/ UpdateStock(1)
  \/ Commit(1)
  \/ \E pid \in ProductKeys, q \in Quantities : update_stock(pid, q)
  \/ \E pid \in ProductKeys, q \in Quantities : quick_add_stock(pid, q)

Spec == Init /\ [][Next]_vars

(***************************************************************************)
(* SpecConcurrent: two workers handle one checkout each, and their steps   *)
(* interleave.  The requests are the single-line carts with complete       *)
(* customer data.                                                          *)
(***************************************************************************)
ConcurrentRequests ==
  {q \in CheckoutRequests :
     /\ required_fields_present(q.customerData)
     /\ ~q.updateProfile
     /\ Len(q.cartItems) = 1}

NextConcurrent ==
  \/ \E r \in Workers, request \in ConcurrentRequests : CheckoutReceive(r, request)
  \/ \E r \in Workers : CheckStock(r)
  \/ \E r \in Workers : CreateOrder(r)
  \/ \E r \in Workers : CreateItems(r)
  \/ \E r \in Workers : UpdateStock(r)
  \/ \E r \in Workers : Commit(r)

SpecConcurrent == Init /\ [][NextConcurrent]_vars

(***************************************************************************)
(* SpecWhatsApp: a deployment's WHATSAPP_* settings and the arguments of   *)
(* one call into the client or the service are drawn at start; the call    *)
(* then runs.                                                              *)
(***************************************************************************)
PendingCalls ==
  [op : {"send_text"}, done : {FALSE}, to : PhoneNumbers, body : MessageBodies,
   api : ApiOutcomes]
  \cup
  [op : {"send_order_notifications"}, done : {FALSE}, order : NotifiedOrders,
   api_c : ApiOutcomes, api_a : ApiOutcomes]

InitWhatsApp ==
  /\ stock = [p \in ProductIds |-> InitStock]
  /\ active = [p \in ProductIds |-> TRUE]
  /\ orders = {}
  /\ items = {}
  /\ profile = [u \in Users |-> InitProfile]
  /\ nextOrderId = 1
  /\ pc = [r \in Workers |-> "idle"]
  /\ req = [r \in Workers |-> NoRequest]
  /\ txn = [r \in Workers |-> NoTxn]
  /\ resp = [r \in Workers |-> NoResp]
  /\ pre = [r \in Workers |-> InitStore]
  /\ first = [r \in Workers |-> NoFirst]
  /\ sent = {}
  /\ outbox = {}
  /\ nreq = 0
  /\ made = [r \in Workers |-> 0]
  /\ dirty = [r \in Workers |-> FALSE]
  /\ raced = FALSE
  /\ wa_settings \in WhatsAppSettings
  /\ wa_last \in PendingCalls
  /\ http = 0
  /\ web = NoWeb
  /\ audit = {}
  /\ deleted = {}
  /\ users = NoUsers
  /\ catalog = NoCatalog
  /\ quick = NoQuick

NextWhatsApp == SendText \/ SendOrderNotifications

SpecWhatsApp == InitWhatsApp /\ [][NextWhatsApp]_vars

(***************************************************************************)
(* SpecAccess: logged-in users check out, and anybody sends requests to    *)
(* the role-gated handlers.  The store may hold an Order without a user    *)
(* (Order.user is null=True; no handler of views.py creates such a row).   *)
(***************************************************************************)
GuestOrder ==
  [id |-> 1, user |-> "", phone |-> "9876543210", address |-> "12 Main St",
   total_amount |-> 3000, status |-> "pending"]

\* The OrderItem of that Order.
GuestItems == {[order |-> 1, product |-> 1, quantity |-> 2, price |-> 1500]}

AccessRequests ==
  [user : Accounts \ {"anon"},
   customerData : {c \in CustomerData : required_fields_present(c)},
   updateProfile : {FALSE},
   cartItems : {<<[pid |-> 1, price |-> 1500, quantity |-> 2]>>}]

InitAccess ==
  /\ stock = [p \in ProductIds |-> InitStock]
  /\ active = [p \in ProductIds |-> TRUE]
  /\ orders \in {{}, {GuestOrder}}
  /\ nextOrderId = Cardinality(orders) + 1
  /\ items = {i \in GuestItems : \E o \in orders : o.id = i.order}
  /\ profile = [u \in Users |-> InitProfile]
  /\ pc = [r \in Workers |-> "idle"]
  /\ req = [r \in Workers |-> NoRequest]
  /\ txn = [r \in Workers |-> NoTxn]
  /\ resp = [r \in Workers |-> NoResp]
  /\ pre = [r \in Workers |-> InitStore]
  /\ first = [r \in Workers |-> NoFirst]
  /\ sent = {}
  /\ outbox = {}
  /\ nreq = 0
  /\ made = [r \in Workers |-> 0]
  /\ dirty = [r \in Workers |-> FALSE]
  /\ raced = FALSE
  /\ wa_settings = [dry_run |-> "unset", credentials |-> FALSE, admin_number |-> << >>]
  /\ wa_last = NoCall
  /\ http = 0
  /\ web = NoWeb
  /\ audit = {}
  /\ deleted = {}
  /\ users = NoUsers
  /\ catalog = NoCatalog
  /\ quick = NoQuick

NextAccess ==
  \/ Quiet /\ pc[1] = "idle" /\ \E request \in AccessRequests : CheckoutReceive(1, request)
  \/ CheckStock(1)
  \/ CreateOrder(1)
  \/ CreateItems(1)
  \/ UpdateStock(1)
  \/ Commit(1)
  \/ \E handler \in ReadOnlyHandlers, account \in Accounts, method \in Methods :
       \E arg \in PathArgs(handler) : ReadOnly(handler, arg, account, method)
  \/ \E account \in Accounts, method \in Methods, id \in OrderIds, body \in StatusBodies :
       update_order_status(account, method, id, body)
  \/ \E account \in Accounts, method \in Methods, id \in OrderIds, body \in AddressBodies :
       update_order_address(account, method, id, body)
  \/ \E account \in Accounts, method \in Methods, id \in OrderIds :
       generate_invoice(account, method, id)
  \/ \E account \in Accounts, method \in Methods, pid \in ProductKeys, q \in Quantities :
       QuickAddStock(account, method, pid, q)
  \/ \E account \in Accounts, method \in Methods, pid \in ProductKeys, q \in Quantities :
       staff_inventory(account, method, pid, q)
  \/ \E account \in Accounts, method \in Methods, pid \in ProductKeys :
       delete_product(account, method, pid)

SpecAccess == InitAccess /\ [][NextAccess]_vars

(***************************************************************************)
(* accounts: CustomUser.save, the post_save receiver and the OAuth adapter. *)
(* A row carries, besides its fields, how its role came about (origin).     *)
(***************************************************************************)
ROLE_CHOICES == {"admin", "staff", "customer"}
\* The role a caller hands to create_user: one of the choices, the empty
\* string, or none at all ("unset").
RoleArgs == ROLE_CHOICES \cup {"", "unset"}

\* role = models.CharField(..., default='customer')
field_default(role_arg) == IF role_arg = "unset" THEN "customer" ELSE role_arg

\* A faulty variant of save: the instance is written as it is.
save_as_is(instance) == instance

\* CustomUser.save: if self.role == 'admin': self.is_approved = True.  Yields
\* the instance as super().save() gets it.
save(instance) ==
  IF instance.role = "admin" THEN [instance EXCEPT !.is_approved = TRUE] ELSE instance

\* instance.save(update_fields=[...]): only the named fields reach the row.
save_update_fields(row, instance, fields) ==
  [f \in DOMAIN row |-> IF f \in fields THEN save(instance)[f] ELSE row[f]]

\* handle_user_post_save: the row after the receiver has run.
handle_user_post_save(row, created) ==
  IF ~created THEN row
  ELSE LET named ==
             IF row.role = ""
               THEN save_update_fields(row, [row EXCEPT !.role = "customer"], {"role"})
               ELSE row
       IN IF named.role = "admin" /\ ~named.is_approved
            THEN save_update_fields(named, [named EXCEPT !.is_approved = TRUE],
                                    {"is_approved"})
            ELSE named

\* instance.save(): the override, the write of all fields, then post_save.
saved_row(instance, created) == handle_user_post_save(save(instance), created)

\* CustomUser.objects.create_user(...), with or without a role.
create_user(n, role_arg, approved) ==
  /\ ~users[n].stored
  /\ users' = [users EXCEPT ![n] =
                 saved_row([stored |-> TRUE, role |-> field_default(role_arg),
                            is_approved |-> approved,
                            origin |-> IF role_arg = "unset" THEN "default"
                                       ELSE "given"], TRUE)]
  /\ UNCHANGED <<stock, active, orders, items, profile, nextOrderId, pc, req, txn,
                 resp, pre, first, sent, outbox, nreq, made, dirty, raced,
                 waVars, webVars, catalog, quick>>

\* user.role = ...; user.is_approved = ...; user.save() on a stored user.
edit_and_save(n, new_role, approved) ==
  /\ users[n].stored
  /\ users' = [users EXCEPT ![n] =
                 saved_row([users[n] EXCEPT
                              !.role = new_role, !.is_approved = approved,
                              !.origin = IF new_role # users[n].role THEN "changed"
                                         ELSE @], FALSE)]
  /\ UNCHANGED <<stock, active, orders, items, profile, nextOrderId, pc, req, txn,
                 resp, pre, first, sent, outbox, nreq, made, dirty, raced,
                 waVars, webVars, catalog, quick>>

\* CustomSocialAccountAdapter.populate_user for a new user, and the save
\* that signs the user up.
oauth_signup(n) ==
  /\ ~users[n].stored
  /\ users' = [users EXCEPT ![n] =
                 saved_row([stored |-> TRUE, role |-> "customer",
                            is_approved |-> TRUE, origin |-> "oauth"], TRUE)]
  /\ UNCHANGED <<stock, active, orders, items, profile, nextOrderId, pc, req, txn,
                 resp, pre, first, sent, outbox, nreq, made, dirty, raced,
                 waVars, webVars, catalog, quick>>

\* handle_oauth_login for a stored user with a SocialAccount: a customer who
\* is not approved is approved and saved.
handle_oauth_login(n) ==
  /\ users[n].stored
  /\ users[n].role = "customer" /\ ~users[n].is_approved
  /\ users' = [users EXCEPT ![n] =
                 saved_row([users[n] EXCEPT !.is_approved = TRUE], FALSE)]
  /\ UNCHANGED <<stock, active, orders, items, profile, nextOrderId, pc, req, txn,
                 resp, pre, first, sent, outbox, nreq, made, dirty, raced,
                 waVars, webVars, catalog, quick>>

NextAccounts ==
  \/ \E n \in UserNames, role_arg \in RoleArgs, approved \in BOOLEAN :
       create_user(n, role_arg, approved)
  \/ \E n \in UserNames, new_role \in ROLE_CHOICES \cup {""}, approved \in BOOLEAN :
       edit_and_save(n, new_role, approved)
  \/ \E n \in UserNames : oauth_signup(n)
  \/ \E n \in UserNames : handle_oauth_login(n)

SpecAccounts == Init /\ [][NextAccounts]_vars

(***************************************************************************)
(* get_quick_order_lists, views.py:699-837.  The catalog is a sequence of  *)
(* Product rows, the index of a row being its id.                          *)
(***************************************************************************)
CatalogIds == 1..NumCatalog
\* Category names, in the order of Category.Meta.ordering (order, name).
CategoryOrder == <<"Boys & Girls", "General", "Rockets">>
Categories == {CategoryOrder[i] : i \in DOMAIN CategoryOrder}
CatalogPrices == {500, 2000}
CatalogRows == [category : Categories, price : CatalogPrices, is_active : BOOLEAN]

\* The place of a row among the rows: category, then price, then is_active.
RowRank(row) ==
  (CHOOSE i \in DOMAIN CategoryOrder : CategoryOrder[i] = row.category) * 4
  + (IF row.price = 2000 THEN 2 ELSE 0) + (IF row.is_active THEN 1 ELSE 0)

\* The catalogs, one for each collection of rows: ids are given in the order
\* of RowRank.
Catalogs ==
  {c \in [CatalogIds -> CatalogRows] :
     \A i, j \in CatalogIds : i < j => RowRank(c[i]) <= RowRank(c[j])}

\* The five lists of the source; category_focus is empty where the source
\* gives none.
quick_order_lists ==
  <<[id |-> 1, category_focus |-> << >>],
    [id |-> 2, category_focus |-> <<"Family&Kids", "General">>],
    [id |-> 3, category_focus |-> <<"Boys", "Girls", "Family&Kids">>],
    [id |-> 4, category_focus |-> << >>],
    [id |-> 5, category_focus |-> << >>]>>

\* category__name__icontains=cat_name, for the names above.
icontains(name, cat_name) ==
  <<name, cat_name>> \in {<<"Boys & Girls", "Boys">>, <<"Boys & Girls", "Girls">>,
                          <<"General", "General">>}

\* Product.objects.filter(is_active=True)
active_products(cat) == {p \in CatalogIds : cat[p].is_active}

RECURSIVE order_by_price_desc(_, _)
\* .order_by('-price'); rows of one price come in the order of their ids.
order_by_price_desc(cat, ids) ==
  IF ids = {} THEN << >>
  ELSE LET top == CHOOSE p \in ids :
                    \A q \in ids : \/ cat[p].price > cat[q].price
                                   \/ cat[p].price = cat[q].price /\ p <= q
       IN <<top>> \o order_by_price_desc(cat, ids \ {top})

RECURSIVE focus_products(_, _, _)
\* for cat_name in quick_list['category_focus']: list_products.extend(...)
focus_products(cat, focus, i) ==
  IF i > Len(focus) THEN << >>
  ELSE order_by_price_desc(cat, {p \in active_products(cat) :
                                   icontains(cat[p].category, focus[i])})
       \o focus_products(cat, focus, i + 1)

RECURSIVE all_category_products(_, _)
\* for category in categories: list_products.extend(...), over the
\* categories that have an active product.
all_category_products(cat, i) ==
  IF i > Len(CategoryOrder) THEN << >>
  ELSE order_by_price_desc(cat, {p \in active_products(cat) :
                                   cat[p].category = CategoryOrder[i]})
       \o all_category_products(cat, i + 1)

list_products(cat, quick_list) ==
  IF quick_list.category_focus # << >>
    THEN focus_products(cat, quick_list.category_focus, 1)
    ELSE all_category_products(cat, 1)

Range(seq) == {seq[i] : i \in DOMAIN seq}

RECURSIVE unique_products(_, _)
\* Remove duplicates while maintaining order: the elements from the i-th on
\* that no earlier place holds.
unique_products(seq, i) ==
  IF i > Len(seq) THEN << >>
  ELSE (IF \E j \in 1..(i - 1) : seq[j] = seq[i] THEN << >> ELSE <<seq[i]>>)
       \o unique_products(seq, i + 1)

RECURSIVE price_sum(_, _, _)
\* sum(float(p.price) for p in selected_products)
price_sum(cat, seq, n) ==
  IF n = 0 THEN 0 ELSE price_sum(cat, seq, n - 1) + cat[seq[n]].price

RECURSIVE select_to_minimum(_, _, _, _)
\* for product in ...: if list_total >= MIN_PACK_AMOUNT: break; append.
select_to_minimum(cat, seq, i, selected) ==
  IF i > Len(seq) \/ price_sum(cat, selected, Len(selected)) >= MIN_PACK_AMOUNT
    THEN selected
    ELSE select_to_minimum(cat, seq, i + 1, Append(selected, seq[i]))

\* remaining_products = [p for p in list_products if p not in selected_products]
remaining_products(seq, selected) ==
  SelectSeq(seq, LAMBDA p : p \notin Range(selected))

\* The two loops that select products until the list reaches the minimum.
selected_for_minimum(cat, seq) ==
  LET selected == select_to_minimum(cat, seq, 1, << >>)
  IN IF price_sum(cat, selected, Len(selected)) < MIN_PACK_AMOUNT
       THEN select_to_minimum(cat, remaining_products(seq, selected), 1, selected)
       ELSE selected

\* The orders in which the database hands out the rows of a query without
\* order_by: by id, upwards or downwards.
RowOrders ==
  {[i \in CatalogIds |-> i], [i \in CatalogIds |-> NumCatalog + 1 - i]}

\* A faulty variant of with_variety: the list is left as the minimum made it.
with_variety_skipped(cat, selected, rows) == selected

\* Ensure we have at least 4 products for variety: all_available[:needed],
\* where all_available is products.exclude(id__in=selected).
with_variety(cat, selected, rows) ==
  IF Len(selected) < MIN_PACK_ITEMS
    THEN LET all_available ==
               SelectSeq(rows, LAMBDA p : p \in active_products(cat)
                                          /\ p \notin Range(selected))
             additional_needed == MIN_PACK_ITEMS - Len(selected)
         IN selected \o SubSeq(all_available, 1,
                               IF additional_needed < Len(all_available)
                                 THEN additional_needed ELSE Len(all_available))
    ELSE selected

\* One pass of "for quick_list in quick_order_lists".  by_minimum is the
\* number of products the minimum selected, before the top-up.
populated(cat, quick_list, rows) ==
  LET candidates == unique_products(list_products(cat, quick_list), 1)
      selected == selected_for_minimum(cat, candidates)
      products == with_variety(cat, selected, rows)
  IN [id |-> quick_list.id,
      products |-> products,
      total |-> price_sum(cat, products, Len(products)),
      item_count |-> Len(products),
      by_minimum |-> Len(selected)]

\* A logged-in user asks for the lists.
get_quick_order_lists ==
  /\ quick = NoQuick
  /\ \E rows \in RowOrders :
       quick' = [i \in DOMAIN quick_order_lists |->
                   populated(catalog, quick_order_lists[i], rows)]
  /\ UNCHANGED <<stock, active, orders, items, profile, nextOrderId, pc, req, txn,
                 resp, pre, first, sent, outbox, nreq, made, dirty, raced,
                 waVars, webVars, users, catalog>>

InitQuick ==
  /\ stock = [p \in ProductIds |-> InitStock]
  /\ active = [p \in ProductIds |-> TRUE]
  /\ orders = {}
  /\ items = {}
  /\ profile = [u \in Users |-> InitProfile]
  /\ nextOrderId = 1
  /\ pc = [r \in Workers |-> "idle"]
  /\ req = [r \in Workers |-> NoRequest]
  /\ txn = [r \in Workers |-> NoTxn]
  /\ resp = [r \in Workers |-> NoResp]
  /\ pre = [r \in Workers |-> InitStore]
  /\ first = [r \in Workers |-> NoFirst]
  /\ sent = {}
  /\ outbox = {}
  /\ nreq = 0
  /\ made = [r \in Workers |-> 0]
  /\ dirty = [r \in Workers |-> FALSE]
  /\ raced = FALSE
  /\ wa_settings = [dry_run |-> "unset", credentials |-> FALSE, admin_number |-> << >>]
  /\ wa_last = NoCall
  /\ http = 0
  /\ web = NoWeb
  /\ audit = {}
  /\ deleted = {}
  /\ users = NoUsers
  /\ catalog \in Catalogs
  /\ quick = NoQuick

NextQuick == get_quick_order_lists

SpecQuick == InitQuick /\ [][NextQuick]_vars

(***************************************************************************)
(* SpecStocked: checkout is the only operation, one request after the      *)
(* other, and each product starts low on stock or just above the low-stock *)
(* mark.                                                                   *)
(***************************************************************************)
StockLevels == {InitStock, LOW_STOCK + 1}

InitStocked ==
  /\ stock \in [ProductIds -> StockLevels]
  /\ active = [p \in ProductIds |-> TRUE]
  /\ orders = {}
  /\ items = {}
  /\ profile = [u \in Users |-> InitProfile]
  /\ nextOrderId = 1
  /\ pc = [r \in Workers |-> "idle"]
  /\ req = [r \in Workers |-> NoRequest]
  /\ txn = [r \in Workers |-> NoTxn]
  /\ resp = [r \in Workers |-> NoResp]
  /\ pre = [r \in Workers |-> InitStore]
  /\ first = [r \in Workers |-> NoFirst]
  /\ sent = {}
  /\ outbox = {}
  /\ nreq = 0
  /\ made = [r \in Workers |-> 0]
  /\ dirty = [r \in Workers |-> FALSE]
  /\ raced = FALSE
  /\ wa_settings = [dry_run |-> "unset", credentials |-> FALSE, admin_number |-> << >>]
  /\ wa_last = NoCall
  /\ http = 0
  /\ web = NoWeb
  /\ audit = {}
  /\ deleted = {}
  /\ users = NoUsers
  /\ catalog = NoCatalog
  /\ quick = NoQuick

NextStocked ==
  \/ Quiet /\ pc[1] = "idle" /\ \E request \in CheckoutRequests : CheckoutReceive(1, request)
  \/ CheckoutResubmit(1)
  \/ CheckStock(1)
  \/ CreateOrder(1)
  \/ CreateItems(1)
  \/ UpdateStock(1)
  \/ Commit(1)

SpecStocked == InitStocked /\ [][NextStocked]_vars

(***************************************************************************)
(* Vocabulary of the claims.                                               *)
(***************************************************************************)

\* Worker r has answered its request and no other request has written the
\* store since r received it: pre[r] is the store the request started from.
Finished(r) == pc[r] = "done" /\ ~dirty[r]

Cart(r) == req[r].cartItems

NewOrders(r) == {o \in orders : o.id = made[r]}
NewItems(r) == {i \in items : i.order = made[r]}

RECURSIVE Purchased(_, _, _)
\* Units of product p the cart buys: the positive quantities of its lines.
Purchased(cart, n, p) ==
  IF n = 0 THEN 0
  ELSE Purchased(cart, n - 1, p) +
       (IF cart[n].pid = p /\ cart[n].quantity > 0 THEN cart[n].quantity ELSE 0)

OneItemPerLine(r) ==
  /\ Cardinality(NewItems(r)) = Len(Cart(r))
  /\ \A k \in 1..Len(Cart(r)) :
       \E i \in NewItems(r) :
         /\ i.product = Cart(r)[k].pid
         /\ i.quantity = Cart(r)[k].quantity
         /\ i.price = Cart(r)[k].price

NoOrderEffect(r) ==
  /\ NewOrders(r) = {}
  /\ NewItems(r) = {}
  /\ orders = pre[r].orders
  /\ items = pre[r].items
  /\ stock = pre[r].stock

AllPresent(r) ==
  /\ Cardinality(NewOrders(r)) = 1
  /\ OneItemPerLine(r)
  /\ \A p \in ProductIds :
       stock[p] = pre[r].stock[p] - Purchased(Cart(r), Len(Cart(r)), p)

DistinctProducts(cart) ==
  \A i, j \in 1..Len(cart) : i # j => cart[i].pid # cart[j].pid

PassesEarlyChecks(q) ==
  /\ required_fields_present(q.customerData)
  /\ Len(q.cartItems) > 0
  /\ total_amount(q.cartItems) >= MIN_ORDER_AMOUNT

\* C1: after a checkout has finished, with success or with any error, the
\* new Order, one OrderItem per cart line and every stock decrement of the
\* request are all in the store, or none of them is.
C1_AllOrNothing ==
  \A r \in Workers : Finished(r) => AllPresent(r) \/ NoOrderEffect(r)

\* A checkout that created its Order and then failed on the second OrderItem
\* of one product has finished, and nothing of it is in the store.
C1_Witness ==
  \E r \in Workers :
    /\ Finished(r)
    /\ resp[r].error_type = "server"
    /\ made[r] # 0
    /\ NoOrderEffect(r)

C2_Precondition(r) ==
  /\ required_fields_present(req[r].customerData)
  /\ total_amount(Cart(r)) >= MIN_ORDER_AMOUNT
  /\ \A k \in 1..Len(Cart(r)) :
       /\ Cart(r)[k].pid \in ProductIds
       /\ Cart(r)[k].quantity <= pre[r].stock[Cart(r)[k].pid]

C2_OrderCreated(r) ==
  /\ resp[r].success
  /\ Cardinality(NewOrders(r)) = 1
  /\ orders = pre[r].orders \cup NewOrders(r)
  /\ \A o \in NewOrders(r) :
       o.status = "pending" /\ o.total_amount = total_amount(Cart(r))
  /\ OneItemPerLine(r)
  /\ items = pre[r].items \cup NewItems(r)

\* C2 as stated: with complete customer data, total >= 3000 and every
\* quantity within stock, checkout creates one pending Order with the cart's
\* total, one OrderItem per line, and lowers each product's stock by the
\* line's quantity.
C2_Original ==
  \A r \in Workers :
    Finished(r) /\ C2_Precondition(r) =>
      /\ C2_OrderCreated(r)
      /\ \A k \in 1..Len(Cart(r)) :
           stock[Cart(r)[k].pid] = pre[r].stock[Cart(r)[k].pid] - Cart(r)[k].quantity

\* C2 as amended: the same when the lines name pairwise different products;
\* stock is lowered by the quantity of every line whose quantity is positive
\* and is left as it was for a line whose quantity is zero or negative.
C2_Amended ==
  \A r \in Workers :
    Finished(r) /\ C2_Precondition(r) /\ DistinctProducts(Cart(r)) =>
      /\ C2_OrderCreated(r)
      /\ \A p \in ProductIds :
           stock[p] = pre[r].stock[p] - Purchased(Cart(r), Len(Cart(r)), p)

\* A two-line order with one negative quantity was placed.
C2_Witness ==
  \E r \in Workers :
    /\ Finished(r)
    /\ C2_Precondition(r)
    /\ DistinctProducts(Cart(r))
    /\ Len(Cart(r)) = 2
    /\ \E k \in 1..2 : Cart(r)[k].quantity < 0
    /\ resp[r].success

C3_Rejected(r) ==
  /\ ~resp[r].success
  /\ resp[r].error_type = "minimum_order"
  /\ resp[r].shortfall = MIN_ORDER_AMOUNT - total_amount(Cart(r))
  /\ NoOrderEffect(r)

\* C3 as stated: every non-empty cart with total below 3000 is rejected with
\* 'minimum_order' and shortfall 3000 - total, and no Order, OrderItem or
\* stock is created or changed.
C3_Original ==
  \A r \in Workers :
    Finished(r) /\ Len(Cart(r)) > 0 /\ total_amount(Cart(r)) < MIN_ORDER_AMOUNT =>
      C3_Rejected(r)

\* C3 as amended: the same for requests whose four contact fields are present.
C3_Amended ==
  \A r \in Workers :
    /\ Finished(r)
    /\ required_fields_present(req[r].customerData)
    /\ Len(Cart(r)) > 0
    /\ total_amount(Cart(r)) < MIN_ORDER_AMOUNT
    => C3_Rejected(r)

\* A cart of total 1500 was rejected with shortfall 1500.
C3_Witness ==
  \E r \in Workers :
    /\ Finished(r)
    /\ required_fields_present(req[r].customerData)
    /\ total_amount(Cart(r)) = 1500
    /\ resp[r].error_type = "minimum_order"
    /\ resp[r].shortfall = 1500

Insufficient(r, k) ==
  /\ Cart(r)[k].pid \in ProductIds
  /\ Cart(r)[k].quantity > pre[r].stock[Cart(r)[k].pid]

C4_Rejected(r) ==
  /\ ~resp[r].success
  /\ resp[r].error_type = "stock"
  /\ NoOrderEffect(r)

\* C4 as stated: if any cart line requests more than its product's stock,
\* checkout is rejected with 'stock' and creates no Order or OrderItem and
\* changes no product's stock.
C4_Original ==
  \A r \in Workers :
    Finished(r) /\ (\E k \in 1..Len(Cart(r)) : Insufficient(r, k)) => C4_Rejected(r)

\* C4 as amended: the same for requests that pass the contact, empty-cart and
\* minimum-order checks and in which no line before the first insufficient
\* one references a missing product.
C4_Amended ==
  \A r \in Workers :
    /\ Finished(r)
    /\ PassesEarlyChecks(req[r])
    /\ \E k \in 1..Len(Cart(r)) :
         /\ Insufficient(r, k)
         /\ \A j \in 1..(k - 1) : Cart(r)[j].pid \in ProductIds
    => C4_Rejected(r)

\* A cart whose first line is within stock and whose second line, for another
\* product, is not, was rejected; the first line's product kept its stock.
C4_Witness ==
  \E r \in Workers :
    /\ Finished(r)
    /\ PassesEarlyChecks(req[r])
    /\ Len(Cart(r)) = 2
    /\ Cart(r)[1].pid \in ProductIds
    /\ Cart(r)[1].pid # Cart(r)[2].pid
    /\ Cart(r)[1].quantity > 0
    /\ ~Insufficient(r, 1)
    /\ Insufficient(r, 2)
    /\ resp[r].error_type = "stock"
    /\ stock = pre[r].stock

\* The kind of the earliest validation step the request violates, "none"
\* when it violates no step: (1) contact fields, (2) empty cart, (3) minimum
\* order, (4) line by line, missing product or insufficient stock.
EarliestViolation(q, st) ==
  IF ~required_fields_present(q.customerData) THEN "validation"
  ELSE IF Len(q.cartItems) = 0 THEN "validation"
  ELSE IF total_amount(q.cartItems) < MIN_ORDER_AMOUNT THEN "minimum_order"
  ELSE LET bad == {k \in 1..Len(q.cartItems) :
                     \/ q.cartItems[k].pid \notin ProductIds
                     \/ q.cartItems[k].quantity > st[q.cartItems[k].pid]}
       IN IF bad = {} THEN "none"
          ELSE LET k == CHOOSE i \in bad : \A j \in bad : i <= j
               IN IF q.cartItems[k].pid \notin ProductIds THEN "not_found" ELSE "stock"

RulesViolated(q, st) ==
  (IF ~required_fields_present(q.customerData) THEN 1 ELSE 0)
  + (IF Len(q.cartItems) = 0 THEN 1 ELSE 0)
  + (IF total_amount(q.cartItems) < MIN_ORDER_AMOUNT THEN 1 ELSE 0)
  + Cardinality({k \in 1..Len(q.cartItems) :
                   \/ q.cartItems[k].pid \notin ProductIds
                   \/ q.cartItems[k].quantity > st[q.cartItems[k].pid]})

\* C5: validation is fail-fast in the order contact fields, empty cart,
\* minimum order, cart lines; a request that violates several rules is
\* answered with the kind of the earliest violated step.
C5_FailFast ==
  \A r \in Workers :
    Finished(r) /\ EarliestViolation(req[r], pre[r].stock) # "none" =>
      /\ ~resp[r].success
      /\ resp[r].error_type = EarliestViolation(req[r], pre[r].stock)

\* A request without a phone number, below the minimum and with a line for a
\* missing product was answered 'validation'.
C5_Witness ==
  \E r \in Workers :
    /\ Finished(r)
    /\ RulesViolated(req[r], pre[r].stock) >= 3
    /\ Len(Cart(r)) > 0
    /\ resp[r].error_type = "validation"

\* C6: a checkout whose cart references a missing or an inactive product is
\* rejected with 'not_found' and creates no Order, and no OrderItem exists
\* for a product that was inactive at checkout time.
C6_InactiveRejected ==
  /\ \A r \in Workers :
       /\ Finished(r)
       /\ PassesEarlyChecks(req[r])
       /\ DistinctProducts(Cart(r))
       /\ \A k \in 1..Len(Cart(r)) : ~Insufficient(r, k)
       /\ \E k \in 1..Len(Cart(r)) :
            Cart(r)[k].pid \notin ProductIds \/ ~active[Cart(r)[k].pid]
       => resp[r].error_type = "not_found" /\ NewOrders(r) = {}
  /\ \A i \in items : active[i.product]

\* C7: a rejected checkout leaves every stored record as it was before the
\* request, and submitting it again gives the same error kind and the store
\* as it was before the first submission.
C7_RejectedHasNoEffect ==
  \A r \in Workers :
    Finished(r) /\ ~resp[r].success =>
      /\ store = pre[r]
      /\ first[r].kind # "none" =>
           resp[r].error_type = first[r].kind /\ store = first[r].store

\* C8: every Product has stock_quantity >= 0 after any sequence of checkout,
\* update_stock and quick_add_stock requests.
C8_StockNonNegative == \A p \in ProductIds : stock[p] >= 0

BothCommitted(p) ==
  \E r1, r2 \in Workers :
    /\ r1 # r2
    /\ \A r \in {r1, r2} :
         /\ pc[r] = "done"
         /\ resp[r].success
         /\ Cardinality(NewOrders(r)) = 1
         /\ Cart(r)[1].pid = p
         /\ Cart(r)[1].quantity <= InitStock
    /\ Cart(r1)[1].quantity + Cart(r2)[1].quantity > InitStock

C10_SendsAfterCommit ==
  \A s \in sent :
    /\ ~s.in_atomic
    /\ \A r \in Workers :
         pc[r] = "done" /\ made[r] = s.order => \E o \in orders : o.id = s.order

\* C11: the order-confirmation e-mail and every low-stock alert of a checkout
\* run only after its transaction has committed: whatever ran belongs to an
\* Order that is in the store, nothing has run for a request whose atomic
\* block is still open, and nothing for one that was rolled back.
C11_CallbacksAfterCommit ==
  /\ \A m \in outbox : \E o \in orders : o.id = m.order
  /\ \A r \in Workers :
       made[r] # 0 /\ (InAtomic(r) \/ ~resp[r].success) =>
         \A m \in outbox : m.order # made[r]

\* A checkout has committed and both its low-stock alert and its confirmation
\* have run.
C11_Witness ==
  \E r \in Workers :
    /\ pc[r] = "done"
    /\ resp[r].success
    /\ \E m \in outbox : m.order = made[r] /\ m.kind = "stock_alert"
    /\ \E m \in outbox : m.order = made[r] /\ m.kind = "order_confirmation"

\* C12: what the e-mail, the low-stock alert and the WhatsApp send come to
\* never changes the result: a checkout whose transaction committed answers
\* success and its Order, OrderItems and stock decrements are in the store,
\* and a send that failed or raised for a request's order does not fail a
\* request that is otherwise in order.
C12_NotificationsNeverFailCheckout ==
  \A r \in Workers :
    pc[r] = "done" /\ made[r] # 0 =>
      /\ (\E o \in orders : o.id = made[r]) =>
           resp[r].success /\ (Finished(r) => AllPresent(r))
      /\ (\E s \in sent : s.order = made[r] /\ s.outcome # "ok")
           /\ DistinctProducts(Cart(r))
         => resp[r].success

\* A checkout answered success although its WhatsApp send raised, its
\* low-stock alert met an SMTP error and its confirmation an unexpected error.
C12_Witness ==
  \E r \in Workers :
    /\ Finished(r)
    /\ resp[r].success
    /\ AllPresent(r)
    /\ \E s \in sent : s.order = made[r] /\ s.outcome = "exception"
    /\ \E m \in outbox :
         m.order = made[r] /\ m.kind = "stock_alert" /\ m.outcome = "smtp_error"
    /\ \E m \in outbox :
         m.order = made[r] /\ m.kind = "order_confirmation" /\ m.outcome = "unexpected"

\* The last call was send_order_notifications on a saved order.
NotifiedSaved ==
  wa_last.op = "send_order_notifications" /\ wa_last.done /\ wa_last.order.id # 0

\* C13: send_order_notifications on a saved order never raises, attempts the
\* admin send whatever the customer send came to, and returns a 'customer'
\* and an 'admin' entry, each with a success flag and its recipient_type.
C13_BothSendsAttempted ==
  NotifiedSaved =>
    /\ ~wa_last.results.raised
    /\ wa_last.results.admin_called
    /\ wa_last.results.has_entries
    /\ wa_last.results.customer.has_keys
    /\ wa_last.results.customer.success \in BOOLEAN
    /\ wa_last.results.customer.recipient_type = "customer"
    /\ wa_last.results.admin.has_keys
    /\ wa_last.results.admin.success \in BOOLEAN
    /\ wa_last.results.admin.recipient_type = "admin"

\* The customer send raised (order.phone is not a string) and the admin send
\* succeeded.
C13_Witness ==
  /\ NotifiedSaved
  /\ ~wa_last.order.phone_is_str
  /\ wa_last.results.customer.error = "Exception"
  /\ wa_last.results.admin.success

\* The last call was send_text(to, body).
TextSent == wa_last.op = "send_text" /\ wa_last.done

\* WHATSAPP_DRY_RUN is unset or True.
DryRunMode == wa_settings.dry_run \in {"unset", "True"}

\* A phone number in the form the interface names: "+", then digits only, at
\* least 10 of them.
PlusAndDigits(to) ==
  /\ Len(to) >= 1
  /\ to[1] = "+"
  /\ \A i \in 2..Len(to) : to[i] \in Digits
  /\ Len(to) - 1 >= 10

HasText(body) == \E i \in 1..Len(body) : body[i] \notin Whitespace

DryRunEcho ==
  /\ wa_last.result.success
  /\ wa_last.result.mode = "dry_run"
  /\ wa_last.result.payload.to = wa_last.to
  /\ wa_last.result.payload.body = wa_last.body

\* C14 as stated: in dry-run mode send_text with a valid phone number and a
\* non-empty body returns success, mode 'dry_run' and a payload whose 'to' and
\* body equal the arguments, and no HTTP call is made.
C14_Original ==
  DryRunMode =>
    /\ http = 0
    /\ TextSent /\ PlusAndDigits(wa_last.to) /\ wa_last.body # << >> => DryRunEcho

\* C14 as amended: the same for a body that has a character other than
\* whitespace.
C14_Amended ==
  DryRunMode =>
    /\ http = 0
    /\ TextSent /\ PlusAndDigits(wa_last.to) /\ HasText(wa_last.body) => DryRunEcho

\* With WHATSAPP_DRY_RUN unset, a body with blanks around its text was echoed.
C14_Witness ==
  /\ wa_settings.dry_run = "unset"
  /\ TextSent
  /\ PlusAndDigits(wa_last.to)
  /\ wa_last.body = <<" ", "h", " ">>
  /\ DryRunEcho
  /\ http = 0

StartsWithPlus(to) == Len(to) >= 1 /\ to[1] = "+"
Blank(body) == \A i \in 1..Len(body) : body[i] \in Whitespace
WithoutFormatting(to) ==
  SelectSeq(to, LAMBDA c : c \notin {" ", "-", "(", ")"})

RejectedUnsent == ~wa_last.result.success /\ ~wa_last.result.posted

\* C15 as stated: in both modes send_text rejects, without an HTTP call, every
\* phone number that does not start with '+', with the error "must start
\* with '+'", and every empty or whitespace-only body; the phone number is
\* checked before the body.
C15_Original ==
  TextSent =>
    /\ ~StartsWithPlus(wa_last.to) =>
         RejectedUnsent /\ wa_last.result.error = "must start with '+'"
    /\ Blank(wa_last.body) => RejectedUnsent

\* C15 as amended: the same for every phone number that does not start with
\* '+' once its spaces, hyphens and parentheses are removed.
C15_Amended ==
  TextSent =>
    /\ ~StartsWithPlus(WithoutFormatting(wa_last.to)) =>
         RejectedUnsent /\ wa_last.result.error = "must start with '+'"
    /\ Blank(wa_last.body) => RejectedUnsent

\* In production mode a call with a number without '+' and a blank body was
\* rejected for the number, and nothing was posted.
C15_Witness ==
  /\ ~DryRunMode
  /\ TextSent
  /\ ~StartsWithPlus(WithoutFormatting(wa_last.to))
  /\ Len(wa_last.to) > 0
  /\ Blank(wa_last.body)
  /\ RejectedUnsent
  /\ wa_last.result.error = "must start with '+'"
  /\ http = 0

PhoneErrors ==
  {"must start with '+'", "must contain only digits after '+'",
   "must be at least 10 digits"}

\* C16: send_text accepts a phone number only if it begins with '+', has
\* only digits after the '+' and has at least 10 digits; a number with fewer
\* than 10 digits after the '+' is rejected.
C16_PhoneFormat ==
  TextSent /\ wa_last.result.error \notin PhoneErrors => PlusAndDigits(wa_last.to)

\* C17: after any sequence of update_order_status requests, with any body,
\* every Order's status is one of pending, processing, shipped, delivered,
\* cancelled.
C17_StatusIsAChoice ==
  \A o \in orders :
    o.status \in {"pending", "processing", "shipped", "delivered", "cancelled"}

OwnerOf(id) == {o.user : o \in {x \in orders : x.id = id}}

\* C18 as stated: an existing Order is changed only in its status and only by
\* an admin; no request of a non-admin changes any of its fields.
C18_Original ==
  \A c \in audit : c.field = "status" /\ role(c.account) = "admin"

\* C18 as amended: the status of an existing Order is changed only by an
\* admin, its address only by the user who owns the Order, and no other field
\* is changed.
C18_Amended ==
  \A c \in audit :
    \/ c.field = "status" /\ c.account = "a1"
    \/ c.field = "address" /\ c.account \in OwnerOf(c.order)

\* A customer changed the address of the Order their checkout created.
C18_Witness ==
  /\ made[1] # 0
  /\ web.handler = "update_order_address"
  /\ web.response = "success"
  /\ web.account \in {"u1", "u2"}
  /\ \E o \in orders :
       o.id = made[1] /\ o.user = web.account /\ o.address = "7 New Rd"
  /\ [order |-> made[1], field |-> "address", account |-> web.account] \in audit

\* The roles the gate of a handler lets through.
AllowedFor(handler) ==
  IF handler \in {"admin_dashboard", "dashboard_data", "update_order_status",
                  "order_details", "filter_orders", "quick_add_stock"}
    THEN {"a1"}
  ELSE IF handler \in {"staff_inventory", "get_product", "delete_product"}
    THEN {"a1", "s1"}
  ELSE {"a1", "s1", "u1", "u2"}

GateResponses == {"redirect_login", "redirect_home", "forbidden", "method_not_allowed"}
BodyRan == web.response \notin GateResponses

\* C19 as stated: at every role-gated handler a request without a login is
\* redirected to login, a logged-in request whose role is not allowed gets
\* 403, and the body runs only for an allowed role.
C19_Original ==
  web.handler # "none" =>
    /\ web.account = "anon" => web.response = "redirect_login"
    /\ web.account # "anon" /\ web.account \notin AllowedFor(web.handler) =>
         web.response = "forbidden"
    /\ BodyRan => web.account \in AllowedFor(web.handler)

NotDelete == web.handler = "delete_product" /\ web.method # "DELETE"
AdminPath ==
  \/ web.handler \in {"admin_dashboard", "dashboard_data"}
  \/ web.handler = "filter_orders" /\ web.arg = "admin"

\* C19 as amended: the same, except that delete_product answers 405 to every
\* request that is not a DELETE before it looks at the user, and that a
\* logged-in user who is not an admin is redirected to home, not refused with
\* 403, at every path that contains 'admin': admin/dashboard/,
\* admin/dashboard-data/ and filter-orders/<status>/ with such a status.
C19_Amended ==
  web.handler # "none" =>
    /\ web.account = "anon" =>
         web.response = IF NotDelete THEN "method_not_allowed" ELSE "redirect_login"
    /\ web.account # "anon" /\ web.account \notin AllowedFor(web.handler) =>
         web.response = IF AdminPath THEN "redirect_home"
                        ELSE IF NotDelete THEN "method_not_allowed"
                        ELSE "forbidden"
    /\ BodyRan => web.account \in AllowedFor(web.handler)

\* A staff user asked to set the status of an existing Order and got 403; the
\* Order kept its status.
C19_Witness ==
  /\ web.handler = "update_order_status"
  /\ web.account = "s1"
  /\ web.method = "POST"
  /\ web.response = "forbidden"
  /\ \E o \in orders : o.id = web.order /\ o.status = "pending"

InvoiceAsked == web.handler = "generate_invoice"

\* C20 as stated: generate_invoice answers every requester other than the
\* order's user, also for an Order without a user, with 'Order not found'
\* (404) and no invoice content; the invoice goes to the owner only.
C20_Original ==
  InvoiceAsked =>
    \A o \in orders :
      o.id = web.order /\ web.account # o.user =>
        web.response = "not_found" /\ web.content = 0

\* C20 as amended: a logged-in requester other than the order's user gets
\* 'Order not found' (404), a requester without a login is redirected to
\* login, and neither gets invoice content.
C20_Amended ==
  InvoiceAsked =>
    \A o \in orders :
      o.id = web.order /\ web.account # o.user =>
        /\ web.response = IF web.account = "anon" THEN "redirect_login" ELSE "not_found"
        /\ web.content = 0

\* A customer asked for the invoice of the Order another user's checkout made
\* and got 404.
C20_Witness ==
  /\ InvoiceAsked
  /\ made[1] # 0
  /\ web.order = made[1]
  /\ web.account = "u2"
  /\ \E o \in orders : o.id = made[1] /\ o.user = "u1"
  /\ web.response = "not_found"
  /\ web.content = 0

\* C23: every committed OrderItem has quantity >= 1, whatever the carts of the
\* checkout requests were.
C23_QuantityAtLeastOne == \A i \in items : i.quantity >= 1

\* The entries '<product> x<quantity>' of the cart lines of worker r's request.
CartEntries(r) ==
  {[product |-> Cart(r)[n].pid, quantity |-> Cart(r)[n].quantity] :
     n \in 1..Len(Cart(r))}

\* C26: the WhatsApp notification sent for an Order that checkout created and
\* that ends up with OrderItems lists one entry for every cart line of the
\* Order.
C26_ItemListComplete ==
  \A r \in Workers :
    pc[r] = "done" /\ NewItems(r) # {} =>
      \A m \in sent : m.order = made[r] => m.item_list = CartEntries(r)

\* C30: update_stock never raises a product's stock: after the request the
\* stock of the product is what it was, or lower by the requested quantity.
C30_UpdateStockNeverIncreases ==
  [][\A pid \in ProductKeys, quantity \in Quantities :
       update_stock(pid, quantity) =>
         \A p \in ProductIds :
           /\ stock'[p] <= stock[p]
           /\ stock'[p] \in {stock[p], stock[p] - quantity}]_vars

ScheduledAlerts(r, p) ==
  {c \in txn[r].on_commit : c.kind = "stock_alert" /\ c.ref = p}

\* Product p is bought by worker r's cart, in a positive quantity, and the
\* stock the checkout started from less the quantity bought is below 10.
LowAfterPurchase(r, p) ==
  /\ Purchased(Cart(r), Len(Cart(r)), p) > 0
  /\ pre[r].stock[p] - Purchased(Cart(r), Len(Cart(r)), p) < 10

\* C25: when checkout has updated the stock, it has scheduled one low-stock
\* alert for each product it bought (in a positive quantity) whose stock after
\* the decrement is below 10, and none for any other product.
C25_AlertsForLowStock ==
  \A r \in Workers :
    pc[r] = "commit" =>
      \A p \in ProductIds :
        Cardinality(ScheduledAlerts(r, p)) = IF LowAfterPurchase(r, p) THEN 1 ELSE 0

\* One checkout buys two products: one falls below 10 and gets an alert, the
\* other stays at 10 and gets none.
C25_Witness ==
  /\ pc[1] = "commit"
  /\ \E p, q \in ProductIds :
       /\ Purchased(Cart(1), Len(Cart(1)), p) > 0
       /\ Purchased(Cart(1), Len(Cart(1)), q) > 0
       /\ txn[1].stockw[p] < 10
       /\ txn[1].stockw[q] = 10
       /\ Cardinality(ScheduledAlerts(1, p)) = 1
       /\ ScheduledAlerts(1, q) = {}

RECURSIVE SumQuantity(_)
\* The sum of the quantities of a set of OrderItem rows.
SumQuantity(rows) ==
  IF rows = {} THEN 0
  ELSE LET i == CHOOSE x \in rows : TRUE
       IN i.quantity + SumQuantity(rows \ {i})

\* C27: with checkout as the only operation that changes stock, the stock a
\* product started with equals its stock now plus the quantities of the
\* committed OrderItems for it.
C27_StockConserved ==
  \A r \in Workers :
    Finished(r) =>
      \A p \in ProductIds :
        pre[r].stock[p] =
          stock[p] + SumQuantity({i \in items \ pre[r].items : i.product = p})

RECURSIVE SumTotal(_)
\* The sum of quantity x price over a set of OrderItem rows.
SumTotal(rows) ==
  IF rows = {} THEN 0
  ELSE LET i == CHOOSE x \in rows : TRUE
       IN i.quantity * i.price + SumTotal(rows \ {i})

\* C28: after any sequence of checkout, staff product edits and
\* delete_product requests, the total_amount of every Order is the sum of
\* quantity x price over its OrderItems.
C28_TotalMatchesItems ==
  \A o \in orders : o.total_amount = SumTotal({i \in items : i.order = o.id})

\* C29: update_order_address, customer_orders and generate_invoice, the
\* handlers behind approved_user_required, never run their body for a
\* logged-in user whose is_approved is false.
C29_UnapprovedKeptOut ==
  /\ web.handler \in {"update_order_address", "customer_orders", "generate_invoice"}
  /\ web.account # "anon"
  /\ ~is_approved(web.account)
  => ~BodyRan

\* C24: after any sequence of user saves, every stored user whose role is
\* 'admin' has is_approved true, and a user created without a role, whose
\* role nobody changed since, has the role 'customer'.
C24_AdminsApproved ==
  \A n \in UserNames :
    users[n].stored =>
      /\ users[n].role = "admin" => users[n].is_approved
      /\ users[n].origin = "default" => users[n].role = "customer"

\* One user was made an admin by a later save and is approved; another was
\* created without a role, is a customer and is not approved.
C24_Witness ==
  \E n, m \in UserNames :
    /\ users[n].stored /\ users[n].origin = "changed"
    /\ users[n].role = "admin" /\ users[n].is_approved
    /\ users[m].stored /\ users[m].origin = "default"
    /\ users[m].role = "customer" /\ ~users[m].is_approved

Answered == quick # NoQuick

\* C21: get_quick_order_lists returns five bundles, and in every catalog
\* state the total of each bundle is at least 3000.
C21_FiveBundlesAtMinimum ==
  Answered =>
    /\ Len(quick) = 5
    /\ \A b \in DOMAIN quick : quick[b].total >= 3000

ActiveCount == Cardinality({p \in CatalogIds : catalog[p].is_active})

NoProductTwice(b) ==
  \A i, j \in DOMAIN quick[b].products :
    i # j => quick[b].products[i] # quick[b].products[j]

=============================================================================
